---------------------------- MODULE Spec2Model ----------------------------
(***************************************************************************)
(* A model of msys2-web (src/main.py): the shared AppState and the update  *)
(* thread that refreshes it, update_source building the source list of a   *)
(* cycle, and the functions the index is built with (vercmp,               *)
(* cleanup_files, parse_desc, get_arch_names, extract_upstream_version,    *)
(* fill_rdepends).                                                         *)
(*                                                                         *)
(* A Python str is modelled as a sequence of one-character strings, so     *)
(* "1.0-1" is <<"1", ".", "0", "-", "1">> and "" is <<>>.                  *)
(***************************************************************************)
EXTENDS Integers, Sequences, FiniteSets, TLC

VARIABLES
    state,        \* the global AppState: its seven private fields
    uuids,        \* how many uuid4 values have been drawn so far
    now,          \* time.time(), in units of UPDATE_INTERVAL
    cache_key,    \* check_needs_update's default argument _cache_key[0]
    CACHE_LOCAL,  \* the module global set by main()
    mainpc,       \* where the importing (main) thread is
    pc,           \* per update thread: where it is in update_thread
    combined,     \* per update thread: check_needs_update's local `combined`
    hist,         \* per update thread: history of the current and last tick
    lastOk,       \* history: the headers probed by the last completed cycle
    rpc,          \* where the request handler (a cache_route view) is
    view,         \* what the handler has read of the state for its response
    arg,          \* the arguments of the pure function under check
    out,          \* its results
    db,           \* per repository: the package records its database holds
    heap,         \* per refresh cycle: the Source objects update_source built
    frame         \* where update_thread and update_source are in a cycle

syncvars == <<state, uuids, now, cache_key, CACHE_LOCAL, mainpc, pc, combined,
              hist, lastOk>>
readvars == <<rpc, view>>
purevars == <<arg, out>>
srcvars == <<db, heap, frame>>
vars == <<state, uuids, now, cache_key, CACHE_LOCAL, mainpc, pc, combined,
          hist, lastOk, rpc, view, arg, out, db, heap, frame>>

(***************************************************************************)
(* Bounds of the model.                                                    *)
(***************************************************************************)
MaxVerLen == 2
MaxFiles == 4
MaxTicks == 2
MaxThreads == 2
NumUrls == 1
MaxUpstreamLen == 3
MaxTextLen == 5
MaxRules == 2
MaxPackages == 2
MaxRecords == 2

(***************************************************************************)
(* Characters and strings.                                                 *)
(***************************************************************************)
Digits == {"0", "1", "2", "3", "4", "5", "6", "7", "8", "9"}
Alphas == {"a", "b", "c", "d", "e"}

\* The code point of a character (for the str comparisons of Python).
Ord(c) ==
    CASE c = "+" -> 43 [] c = "-" -> 45 [] c = "." -> 46 [] c = "/" -> 47
      [] c = "0" -> 48 [] c = "1" -> 49 [] c = "2" -> 50 [] c = "3" -> 51
      [] c = "4" -> 52 [] c = "5" -> 53 [] c = "6" -> 54 [] c = "7" -> 55
      [] c = "8" -> 56 [] c = "9" -> 57 [] c = ":" -> 58 [] c = "_" -> 95
      [] c = "a" -> 97 [] c = "b" -> 98 [] c = "c" -> 99 [] c = "d" -> 100
      [] c = "e" -> 101 [] c = "g" -> 103 [] c = "i" -> 105 [] c = "m" -> 109
      [] c = "n" -> 110 [] c = "p" -> 112 [] c = "s" -> 115 [] c = "t" -> 116
      [] c = "w" -> 119 [] c = "x" -> 120 [] c = "y" -> 121 [] c = "~" -> 126

\* s < t for two Python strings: lexicographic by code point.
RECURSIVE StrLess(_, _)
StrLess(s, t) ==
    IF t = <<>> THEN FALSE
    ELSE IF s = <<>> THEN TRUE
    ELSE IF Head(s) # Head(t) THEN Ord(Head(s)) < Ord(Head(t))
    ELSE StrLess(Tail(s), Tail(t))

\* All strings over the characters cs of length at most n.
RECURSIVE StringsUpTo(_, _)
StringsUpTo(cs, n) ==
    IF n = 0 THEN {<<>>}
    ELSE LET shorter == StringsUpTo(cs, n - 1)
         IN  shorter \cup {Append(s, c) : s \in shorter, c \in cs}

\* The index of the first / last occurrence of c in s, 0 when absent.
RECURSIVE Find(_, _, _)
Find(s, c, i) ==
    IF i > Len(s) THEN 0 ELSE IF s[i] = c THEN i ELSE Find(s, c, i + 1)

RECURSIVE RFind(_, _, _)
RFind(s, c, i) ==
    IF i = 0 THEN 0 ELSE IF s[i] = c THEN i ELSE RFind(s, c, i - 1)

(***************************************************************************)
(* vercmp (src/main.py, 787-889).  The absent run None of parse() is the   *)
(* empty sequence (a present run is never empty) and the absent separator  *)
(* count of zip_longest's fill value is NoSeps.                            *)
(***************************************************************************)
None == <<>>
NoSeps == -1

digit == 0
alpha == 1
other == 2

cmp(a, b) == (IF a > b THEN 1 ELSE 0) - (IF a < b THEN 1 ELSE 0)

\* cmp on two str values
cmp_str(a, b) == (IF StrLess(b, a) THEN 1 ELSE 0) - (IF StrLess(a, b) THEN 1 ELSE 0)

\* str.isdigit / str.isalpha of a non-empty run decide its type
get_type(s) ==
    IF \A i \in 1..Len(s) : s[i] \in Digits THEN digit
    ELSE IF \A i \in 1..Len(s) : s[i] \in Alphas THEN alpha
    ELSE other

\* int(p) of a run of digits
RECURSIVE int(_)
int(p) ==
    IF p = <<>> THEN 0
    ELSE 10 * int(SubSeq(p, 1, Len(p) - 1)) + (Ord(p[Len(p)]) - 48)

\* split: (epoch, version, release); the release is None without a "-"
split(v) ==
    LET t  == Find(v, "~", 1)
        e  == IF t > 0 THEN SubSeq(v, 1, t - 1) ELSE <<"0">>
        v2 == IF t > 0 THEN SubSeq(v, t + 1, Len(v)) ELSE v
        d  == RFind(v2, "-", Len(v2))
    IN  IF d > 0
        THEN [e |-> e, v |-> SubSeq(v2, 1, d - 1), r |-> SubSeq(v2, d + 1, Len(v2)),
              has_r |-> TRUE]
        ELSE [e |-> e, v |-> v2, r |-> None, has_r |-> FALSE]

\* one pass of parse's loop over the characters of v
RECURSIVE parse_loop(_, _, _, _, _)
parse_loop(v, i, parts, seps, current) ==
    IF i > Len(v) THEN Append(parts, <<seps, current>>)
    ELSE LET c == v[i] IN
         IF get_type(<<c>>) = other
         THEN parse_loop(v, i + 1,
                         IF current # <<>> THEN Append(parts, <<seps, current>>)
                                           ELSE parts,
                         seps + 1, <<>>)
         ELSE IF current = <<>>
         THEN parse_loop(v, i + 1, parts, seps, <<c>>)
         ELSE IF get_type(<<c>>) = get_type(current)
         THEN parse_loop(v, i + 1, parts, seps, Append(current, c))
         ELSE parse_loop(v, i + 1, Append(parts, <<seps, current>>), seps, <<c>>)

parse(v) == parse_loop(v, 1, <<>>, 0, <<>>)

\* one run is absent (None): it is newer than a run of letters and older than
\* a run of digits
none_cmp_lopsided(p1, p2) ==
    IF p1 = None THEN (IF get_type(p2) = alpha THEN 1 ELSE -1) ELSE 1

none_cmp_absent_older(p1, p2) == IF p1 = None THEN -1 ELSE 1

none_cmp(p1, p2) ==
    IF p1 = None THEN (IF get_type(p2) = alpha THEN 1 ELSE -1)
    ELSE (IF get_type(p1) = alpha THEN -1 ELSE 1)

\* the comparison of one pair of parts: <<decided, result>>
cmp_parts(e1, e2) ==
    LET s1 == e1[1]
        p1 == e1[2]
        s2 == e2[1]
        p2 == e2[2]
        sc == IF s1 # NoSeps /\ s2 # NoSeps THEN cmp(s1, s2) ELSE 0
    IN  IF sc # 0 THEN <<TRUE, sc>>
        ELSE IF p1 = None /\ p2 = None THEN <<TRUE, 0>>
        ELSE IF p1 = None \/ p2 = None THEN <<TRUE, none_cmp(p1, p2)>>
        ELSE LET t1 == get_type(p1)
                 t2 == get_type(p2)
             IN  IF t1 # t2
                 THEN (IF t1 = digit THEN <<TRUE, 1>>
                       ELSE IF t2 = digit THEN <<TRUE, -1>>
                       ELSE <<FALSE, 0>>)
                 ELSE IF t1 = digit
                 THEN (IF cmp(int(p1), int(p2)) # 0
                       THEN <<TRUE, cmp(int(p1), int(p2))>> ELSE <<FALSE, 0>>)
                 ELSE IF t1 = alpha
                 THEN (IF cmp_str(p1, p2) # 0
                       THEN <<TRUE, cmp_str(p1, p2)>> ELSE <<FALSE, 0>>)
                 ELSE <<FALSE, 0>>

RECURSIVE rpm_loop(_, _, _)
rpm_loop(P1, P2, i) ==
    IF i > Len(P1) /\ i > Len(P2) THEN 0
    ELSE LET e1 == IF i <= Len(P1) THEN P1[i] ELSE <<NoSeps, None>>
             e2 == IF i <= Len(P2) THEN P2[i] ELSE <<NoSeps, None>>
             r  == cmp_parts(e1, e2)
         IN  IF r[1] THEN r[2] ELSE rpm_loop(P1, P2, i + 1)

rpmvercmp(v1, v2) == rpm_loop(parse(v1), parse(v2), 1)

vercmp(v1, v2) ==
    LET a == split(v1)
        b == split(v2)
        re == rpmvercmp(a.e, b.e)
        rv == rpmvercmp(a.v, b.v)
    IN  IF re # 0 THEN re
        ELSE IF rv = 0 /\ a.has_r /\ b.has_r THEN rpmvercmp(a.r, b.r)
        ELSE rv

\* a comparison that also takes an equal version for newer
version_is_newer_or_same(v1, v2) == vercmp(v1, v2) >= 0

version_is_newer_than(v1, v2) == vercmp(v1, v2) = 1


(***************************************************************************)
(* cleanup_files (src/main.py, 273-284).                                   *)
(***************************************************************************)
\* str.startswith with receiver and argument exchanged
startswith_swapped(s, prefix) ==
    Len(s) <= Len(prefix) /\ SubSeq(prefix, 1, Len(s)) = s

startswith(s, prefix) ==
    Len(prefix) <= Len(s) /\ SubSeq(s, 1, Len(prefix)) = prefix

endswith(s, c) == s # <<>> /\ s[Len(s)] = c

\* a result list that is left in scan order
Reverse_omitted(s) == s

Reverse(s) == [i \in 1..Len(s) |-> s[Len(s) + 1 - i]]

\* insert x into the descending list s, after the elements equal to it
RECURSIVE InsertDesc(_, _)
InsertDesc(s, x) ==
    IF s = <<>> THEN <<x>>
    ELSE IF StrLess(Head(s), x) THEN <<x>> \o s
    ELSE <<Head(s)>> \o InsertDesc(Tail(s), x)

\* sorted(files, reverse=True)
RECURSIVE sorted_reverse(_)
sorted_reverse(files) ==
    IF files = <<>> THEN <<>>
    ELSE InsertDesc(sorted_reverse(SubSeq(files, 1, Len(files) - 1)),
                    files[Len(files)])

\* the path that cleanup_files appends for a retained path
rooted_once(path) == IF startswith(path, <<"/">>) THEN path ELSE <<"/">> \o path

rooted(path) == <<"/">> \o path

RECURSIVE cleanup_loop(_, _, _, _, _)
cleanup_loop(paths, i, has_last, last, result) ==
    IF i > Len(paths) THEN result
    ELSE LET path == paths[i] IN
         IF has_last /\ endswith(path, "/") /\ startswith(last, path)
         THEN cleanup_loop(paths, i + 1, has_last, last, result)
         ELSE cleanup_loop(paths, i + 1, TRUE, path, Append(result, rooted(path)))

cleanup_files(files) ==
    Reverse(cleanup_loop(sorted_reverse(files), 1, FALSE, <<>>, <<>>))

(***************************************************************************)
(* parse_desc (src/main.py, 254-270).  The dict d is a function from its   *)
(* keys to their value lists; cat = None is has_cat = FALSE.               *)
(***************************************************************************)
NL == "\n"
Space == " "

\* t.splitlines(): the lines of t without their line ends; a line end at the
\* very end of t opens no further line
RECURSIVE splitlines_loop(_, _, _, _)
splitlines_loop(t, i, lines, current) ==
    IF i > Len(t) THEN (IF current = <<>> /\ (t = <<>> \/ t[Len(t)] = NL)
                        THEN lines ELSE Append(lines, current))
    ELSE IF t[i] = NL THEN splitlines_loop(t, i + 1, Append(lines, current), <<>>)
    ELSE splitlines_loop(t, i + 1, lines, Append(current, t[i]))

splitlines(t) == splitlines_loop(t, 1, <<>>, <<>>)

\* l.strip()
RECURSIVE lstrip(_)
lstrip(l) == IF l # <<>> /\ Head(l) = Space THEN lstrip(Tail(l)) ELSE l

RECURSIVE rstrip(_)
rstrip(l) ==
    IF l # <<>> /\ l[Len(l)] = Space THEN rstrip(SubSeq(l, 1, Len(l) - 1)) ELSE l

strip(l) == rstrip(lstrip(l))

\* d[cat] = values
store(d, cat, values) ==
    [k \in (DOMAIN d) \cup {cat} |-> IF k = cat THEN values ELSE d[k]]

RECURSIVE parse_desc_loop(_, _, _, _, _, _)
parse_desc_loop(lines, i, d, has_cat, cat, values) ==
    IF i > Len(lines)
    THEN (IF has_cat THEN store(d, cat, values) ELSE d)
    ELSE LET l == strip(lines[i]) IN
         IF ~has_cat THEN parse_desc_loop(lines, i + 1, d, TRUE, l, values)
         ELSE IF l = <<>>
              THEN parse_desc_loop(lines, i + 1, store(d, cat, values), FALSE, <<>>, <<>>)
         ELSE parse_desc_loop(lines, i + 1, d, has_cat, cat, Append(values, l))

parse_desc(t) == parse_desc_loop(splitlines(t), 1, <<>>, FALSE, <<>>, <<>>)

(***************************************************************************)
(* get_arch_names and is_skipped (src/main.py, 751-784).  A pattern is     *)
(* either a name without regular-expression syntax, which matches that     *)
(* name in any case, or AnyName (".*"), which matches every name; a        *)
(* replacement is a name without group references.                         *)
(***************************************************************************)
AnyName == <<".", "*">>

lower_char(c) == CASE c = "A" -> "a" [] c = "B" -> "b" [] OTHER -> c

\* name.lower()
lower(name) == [i \in 1..Len(name) |-> lower_char(name[i])]

\* re.fullmatch(pattern, name, flags=re.IGNORECASE) is not None
fullmatch(pattern, name) == pattern = AnyName \/ lower(pattern) = lower(name)

\* re.sub("^" + pattern + "$", repl, name, flags=re.IGNORECASE)
re_sub(pattern, repl, name) == IF fullmatch(pattern, name) THEN repl ELSE name

is_skipped(skipped, name) == \E pattern \in skipped : fullmatch(pattern, name)

\* the local function add of get_arch_names
add(names, n) ==
    IF \E i \in 1..Len(names) : names[i] = n THEN names ELSE Append(names, n)

\* the loop over mapping.items(): the names list when the loop is left
RECURSIVE mapping_loop(_, _, _)
mapping_loop(mapping, i, name) ==
    IF i > Len(mapping) THEN <<>>
    ELSE LET new == re_sub(mapping[i][1], mapping[i][2], name) IN
         IF new # name THEN add(<<>>, new)
         ELSE mapping_loop(mapping, i + 1, name)

get_arch_names(mapping, skipped, name) ==
    LET lname == lower(name) IN
    IF is_skipped(skipped, lname) THEN <<>>
    ELSE add(mapping_loop(mapping, 1, lname), lname)

(***************************************************************************)
(* extract_upstream_version (src/main.py, 1013-1015).                      *)
(***************************************************************************)
\* s.rsplit(c)[0]: every c splits, the first piece is taken
rsplit_all_first(s, c) ==
    LET i == Find(s, c, 1) IN IF i = 0 THEN s ELSE SubSeq(s, 1, i - 1)

\* s.split(c, 1)[0]
split1_first(s, c) ==
    LET i == Find(s, c, 1) IN IF i = 0 THEN s ELSE SubSeq(s, 1, i - 1)

\* s.split(c, 1)[-1]
split1_last(s, c) ==
    LET i == Find(s, c, 1) IN IF i = 0 THEN s ELSE SubSeq(s, i + 1, Len(s))

extract_upstream_version(version) ==
    split1_last(split1_last(split1_first(rsplit_all_first(version, "-"), "+"), "~"), ":")

(***************************************************************************)
(* fill_rdepends (src/main.py, 1357-1382).  A Package is a record of the   *)
(* fields the index uses.  A Source is its name and the values of its      *)
(* packages dict in insertion order; a Package object is referred to by    *)
(* its position in the packages of all sources, which stands for the       *)
(* identity that a (Package, str) pair in a set is compared by.  A         *)
(* dependency list holds the names of its (name, constraint) pairs,        *)
(* provides the keys of the dict in insertion order.                       *)
(***************************************************************************)
Kinds == <<"", "make", "optional", "check">>

\* Package.key
package_key(p) == <<p.repo, p.repo_variant, p.name, p.arch, p.fileurl>>

\* a < b for two tuples of str of the same length
RECURSIVE TupleLess(_, _)
TupleLess(a, b) ==
    IF a = <<>> THEN FALSE
    ELSE IF Head(a) # Head(b) THEN StrLess(Head(a), Head(b))
    ELSE TupleLess(Tail(a), Tail(b))

\* the order of the relation kinds as str: "" < "check" < "make" < "optional"
KindOrd(k) ==
    CASE k = "" -> 0 [] k = "check" -> 1 [] k = "make" -> 2 [] k = "optional" -> 3

\* for s in sources: for p in s.packages.values()
RECURSIVE packages_of(_)
packages_of(sources) ==
    IF sources = <<>> THEN <<>>
    ELSE Head(sources).packages \o packages_of(Tail(sources))

\* the dependency list of p that is indexed under a relation kind
listed(p, kind) ==
    CASE kind = "" -> p.depends
      [] kind = "make" -> p.makedepends
      [] kind = "optional" -> p.optdepends
      [] kind = "check" -> p.checkdepends

\* deps.get(n, set()) after the first loop: the (Package, kind) pairs of the
\* packages that list n
deps_get(all, n) ==
    {e \in (1..Len(all)) \X {Kinds[k] : k \in 1..Len(Kinds)} :
        \E j \in 1..Len(listed(all[e[1]], e[2])) : listed(all[e[1]], e[2])[j] = n}

\* list(a set): its elements, each once
RECURSIVE list(_)
list(S) ==
    IF S = {} THEN <<>>
    ELSE LET e == CHOOSE x \in S : TRUE IN <<e>> \o list(S \ {e})

\* rdepends += list(deps.get(prov, set())) for prov in p.provides
RECURSIVE provided_rdepends(_, _, _)
provided_rdepends(all, provides, i) ==
    IF i > Len(provides) THEN <<>>
    ELSE list(deps_get(all, provides[i])) \o provided_rdepends(all, provides, i + 1)

\* (e[0].key, e[1]) < (f[0].key, f[1])
entry_less(all, e, f) ==
    LET ke == package_key(all[e[1]])
        kf == package_key(all[f[1]])
    IN  IF ke # kf THEN TupleLess(ke, kf) ELSE KindOrd(e[2]) < KindOrd(f[2])

\* sorted(rdepends, key=lambda e: (e[0].key, e[1]))
RECURSIVE insert_sorted(_, _, _)
insert_sorted(all, l, e) ==
    IF l = <<>> THEN <<e>>
    ELSE IF entry_less(all, e, Head(l)) THEN <<e>> \o l
    ELSE <<Head(l)>> \o insert_sorted(all, Tail(l), e)

RECURSIVE sorted_rdepends(_, _)
sorted_rdepends(all, l) ==
    IF l = <<>> THEN <<>>
    ELSE insert_sorted(all, sorted_rdepends(all, SubSeq(l, 1, Len(l) - 1)), l[Len(l)])

\* the filter that keeps only dependents of the very same variant
variant_ok_same(p, op) == op.repo_variant = p.repo_variant

\* the filter left out
variant_ok_any(p, op) == TRUE

\* op.repo_variant in (p.repo_variant, "")
variant_ok(p, op) == op.repo_variant \in {p.repo_variant, <<>>}

\* the rdepends that fill_rdepends assigns to p
rdepends_of(all, p) ==
    LET rdepends == list(deps_get(all, p.name)) \o provided_rdepends(all, p.provides, 1)
        sorted == sorted_rdepends(all, rdepends)
    IN  IF p.repo_variant # <<>>
        THEN SelectSeq(sorted, LAMBDA e : variant_ok(p, all[e[1]]))
        ELSE sorted

\* the sources after fill_rdepends(sources)
fill_rdepends(sources) ==
    LET all == packages_of(sources) IN
    [s \in 1..Len(sources) |->
        [sources[s] EXCEPT !.packages =
            [i \in 1..Len(sources[s].packages) |->
                [sources[s].packages[i] EXCEPT
                    !.rdepends = rdepends_of(all, sources[s].packages[i])]]]]

(***************************************************************************)
(* Source.version, external_infos, upstream_version and is_outdated        *)
(* (src/main.py, 418-471).  An ExtInfo is its name and its version.        *)
(* arch_info is what get_arch_info_for_base returns for the Source and     *)
(* cygwin_info what state.cygwin_versions holds under its name, each       *)
(* Absent or a version.                                                    *)
(***************************************************************************)
Absent == <<"None">>

\* what sorted(versions, key=cmp_to_key(vercmp), reverse=True)[0] can be for
\* a set of one or two versions: a version that the other one is not newer
\* than (of two versions that compare equal, either)
newest(versions) ==
    {v \in versions : \A w \in versions : vercmp(w, v) # 1}

\* Source.external_infos: sorted(ext) has "Arch Linux" before "Cygwin"
external_infos(arch_info, cygwin_info) ==
    (IF arch_info = Absent THEN <<>>
     ELSE <<[name |-> "Arch Linux", version |-> extract_upstream_version(arch_info)]>>)
    \o
    (IF cygwin_info = Absent THEN <<>>
     ELSE <<[name |-> "Cygwin", version |-> cygwin_info]>>)

\* Source.upstream_version: the loop, then `version or ""`
RECURSIVE upstream_loop(_, _, _, _)
upstream_loop(infos, i, has_version, version) ==
    IF i > Len(infos) THEN (IF has_version THEN version ELSE <<>>)
    ELSE IF ~has_version \/ version_is_newer_than(infos[i].version, version)
         THEN upstream_loop(infos, i + 1, TRUE, infos[i].version)
         ELSE upstream_loop(infos, i + 1, has_version, version)

upstream_version(infos) == upstream_loop(infos, 1, FALSE, <<>>)

\* Source.is_outdated for the Source's version and its external infos
RECURSIVE outdated_loop(_, _, _)
outdated_loop(infos, i, msys_version) ==
    IF i > Len(infos) THEN FALSE
    ELSE IF version_is_newer_than(infos[i].version, msys_version) THEN TRUE
    ELSE outdated_loop(infos, i + 1, msys_version)

is_outdated(version, infos) ==
    outdated_loop(infos, 1, extract_upstream_version(version))

(***************************************************************************)
(* The shared state and the update thread.                                 *)
(*                                                                         *)
(* The data a refresh cycle fetches is modelled by the number of the cycle *)
(* that fetched it (0: the empty data of AppState.__init__); a uuid4 is    *)
(* the count of the uuids drawn so far, so every draw is a new value.      *)
(***************************************************************************)
Threads == 1..MaxThreads
Urls == 1..NumUrls

\* the value of a response header: absent ("" by .get's default) or present
HeaderVals == {<<>>, <<"a">>}

\* what one probe of every url can return: per url <<last-modified, etag>>
Headers == [Urls -> HeaderVals \X HeaderVals]

NoHeaders == <<>>

\* the order in which update_thread refreshes the components of the state
Components == <<"arch_mapping", "cygwin_versions", "sources", "sourceinfos",
                "arch_versions">>

\* AppState.__init__: empty data, and the second uuid drawn
AppState ==
    [etag |-> 2, last_update |-> 0, sources |-> 0, sourceinfos |-> 0,
     arch_versions |-> 0, arch_mapping |-> 0, cygwin_versions |-> 0]

At(label, i) == [at |-> label, i |-> i]

\* the attributes of the state the outofdate view reads, in its order: the
\* source list, then per source the name mapping, the Arch versions and the
\* Cygwin versions
Reads == <<"sources", "arch_mapping", "arch_versions", "cygwin_versions">>

\* an attribute the handler has not read is <<>>, one it has read is <<value>>
Unread == <<>>

NoView ==
    [etag |-> Unread, sources |-> Unread, arch_mapping |-> Unread,
     arch_versions |-> Unread, cygwin_versions |-> Unread]

\* the history of a thread's current tick (and, once it sleeps, of its last):
\* the tick's number, how it ended, whether it ran under CACHE_LOCAL, the headers
\* it probed, the state and key it began with, the sleeps taken so far and how
\* the tick before it ended and what that one probed
NoHist ==
    [cycle |-> 0, outcome |-> "none", local |-> FALSE, probed |-> NoHeaders,
     start |-> AppState, start_key |-> <<>>, sleeps |-> 0,
     prev_outcome |-> "none", prev_probed |-> NoHeaders]

SyncInit ==
    /\ state = AppState
    /\ uuids = 2
    /\ now = 0
    /\ cache_key = <<>>
    /\ CACHE_LOCAL = FALSE
    /\ mainpc = "import"
    /\ pc = [t \in Threads |-> At("unstarted", 0)]
    /\ combined = [t \in Threads |-> <<>>]
    /\ hist = [t \in Threads |-> NoHist]
    /\ lastOk = NoHeaders
    /\ rpc = 0
    /\ view = NoView

PureIdle == arg = [fn |-> "none"] /\ out = [done |-> FALSE]

\* no repository database is looked at and update_source has built nothing
NoFrame == [at |-> "idle", cycle |-> 0, step |-> 0, repo |-> 0]
SourceIdle == db = <<>> /\ heap = <<>> /\ frame = NoFrame

\* check_needs_update's loop: combined += last-modified + etag, url by url
RECURSIVE combine(_, _)
combine(h, n) ==
    IF n = 0 THEN <<>> ELSE combine(h, n - 1) \o h[n][1] \o h[n][2]

\* `if combined != _cache_key[0]`
needs_always(comb, key) == TRUE
needs_update(comb, key) == comb # key

\* uuid.uuid4(): a value no earlier draw returned
uuid4_stale == state.etag
uuid4 == uuids + 1

\* the module's last statement: start_update_thread(), run once by the import
start_twice(t) ==
    /\ mainpc \in {"import", "loaded"}
    /\ pc[t] = At("unstarted", 0)
    /\ pc' = [pc EXCEPT ![t] = At("check", 0)]
    /\ mainpc' = "loaded"
    /\ UNCHANGED <<state, uuids, now, cache_key, CACHE_LOCAL, combined, hist, lastOk>>
    /\ UNCHANGED <<readvars, purevars, srcvars>>

start_update_thread(t) ==
    /\ mainpc = "import"
    /\ pc[t] = At("unstarted", 0)
    /\ \A u \in Threads : u < t => pc[u] # At("unstarted", 0)
    /\ pc' = [pc EXCEPT ![t] = At("check", 0)]
    /\ mainpc' = "loaded"
    /\ UNCHANGED <<state, uuids, now, cache_key, CACHE_LOCAL, combined, hist, lastOk>>
    /\ UNCHANGED <<readvars, purevars, srcvars>>

\* main(): CACHE_LOCAL = args.cache, then the app serves
main(cache) ==
    /\ mainpc = "loaded"
    /\ CACHE_LOCAL' = cache
    /\ mainpc' = "serving"
    /\ UNCHANGED <<state, uuids, now, cache_key, pc, combined, hist, lastOk>>
    /\ UNCHANGED <<readvars, purevars, srcvars>>

\* the history of a tick that begins now
Begin(t, local, h) ==
    [cycle |-> hist[t].cycle + 1, outcome |-> "running", local |-> local,
     probed |-> h, start |-> state, start_key |-> cache_key,
     sleeps |-> hist[t].sleeps,
     prev_outcome |-> hist[t].outcome, prev_probed |-> hist[t].probed]

\* `with check_needs_update() as needs` under CACHE_LOCAL: yield True
check_local(t) ==
    /\ pc[t] = At("check", 0)
    /\ CACHE_LOCAL
    /\ hist' = [hist EXCEPT ![t] = Begin(t, TRUE, NoHeaders)]
    /\ pc' = [pc EXCEPT ![t] = At("fetch", 1)]
    /\ UNCHANGED <<state, uuids, now, cache_key, CACHE_LOCAL, mainpc, combined, lastOk>>
    /\ UNCHANGED <<readvars, purevars, srcvars>>

\* the probe of every url answers h: yield True when the key differs, else
\* yield False ("not update needed") and go to sleep
check_needs_update(t, h) ==
    /\ pc[t] = At("check", 0)
    /\ ~CACHE_LOCAL
    /\ combined' = [combined EXCEPT ![t] = combine(h, NumUrls)]
    /\ IF needs_update(combine(h, NumUrls), cache_key)
       THEN /\ hist' = [hist EXCEPT ![t] = Begin(t, FALSE, h)]
            /\ pc' = [pc EXCEPT ![t] = At("fetch", 1)]
       ELSE /\ hist' = [hist EXCEPT ![t] = [Begin(t, FALSE, h) EXCEPT !.outcome = "skip"]]
            /\ pc' = [pc EXCEPT ![t] = At("sleep", 0)]
    /\ UNCHANGED <<state, uuids, now, cache_key, CACHE_LOCAL, mainpc, lastOk>>
    /\ UNCHANGED <<readvars, purevars, srcvars>>

\* a probe raises RequestException: caught by update_thread's except
probe_raises(t) ==
    /\ pc[t] = At("check", 0)
    /\ ~CACHE_LOCAL
    /\ hist' = [hist EXCEPT ![t] =
                   [Begin(t, FALSE, NoHeaders) EXCEPT !.outcome = "probe_error"]]
    /\ pc' = [pc EXCEPT ![t] = At("sleep", 0)]
    /\ UNCHANGED <<state, uuids, now, cache_key, CACHE_LOCAL, mainpc, combined, lastOk>>
    /\ UNCHANGED <<readvars, purevars, srcvars>>

\* update_arch_mapping .. update_versions: the fetch and parse succeed and the
\* setter stores the new data (self._sources = sources, ...)
update(t) ==
    /\ pc[t].at = "fetch"
    /\ state' = [state EXCEPT ![Components[pc[t].i]] = hist[t].cycle]
    /\ pc' = [pc EXCEPT ![t] = At("etag", pc[t].i)]
    /\ UNCHANGED <<uuids, now, cache_key, CACHE_LOCAL, mainpc, combined, hist, lastOk>>
    /\ UNCHANGED <<readvars, purevars, srcvars>>

\* an update_* step raises: the exception passes through check_needs_update's
\* yield (the key is not stored) to update_thread's except
abort_stores_key(t) ==
    /\ pc[t].at = "fetch"
    /\ hist' = [hist EXCEPT ![t].outcome = "abort"]
    /\ cache_key' = IF hist[t].local THEN cache_key ELSE combined[t]
    /\ pc' = [pc EXCEPT ![t] = At("sleep", 0)]
    /\ UNCHANGED <<state, uuids, now, CACHE_LOCAL, mainpc, combined, lastOk>>
    /\ UNCHANGED <<readvars, purevars, srcvars>>

update_raises(t) ==
    /\ pc[t].at = "fetch"
    /\ hist' = [hist EXCEPT ![t].outcome = "abort"]
    /\ pc' = [pc EXCEPT ![t] = At("sleep", 0)]
    /\ UNCHANGED <<state, uuids, now, cache_key, CACHE_LOCAL, mainpc, combined, lastOk>>
    /\ UNCHANGED <<readvars, purevars, srcvars>>

\* _update_etag, first statement: self._etag = str(uuid.uuid4())
set_etag(t) ==
    /\ pc[t].at = "etag"
    /\ state' = [state EXCEPT !.etag = uuid4]
    /\ uuids' = uuids + 1
    /\ pc' = [pc EXCEPT ![t] = At("time", pc[t].i)]
    /\ UNCHANGED <<now, cache_key, CACHE_LOCAL, mainpc, combined, hist, lastOk>>
    /\ UNCHANGED <<readvars, purevars, srcvars>>

\* _update_etag, second statement: self._last_update = time.time(), a later
\* instant than the last one read
set_last_update(t) ==
    /\ pc[t].at = "time"
    /\ now' = now + 1
    /\ state' = [state EXCEPT !.last_update = now + 1]
    /\ pc' = [pc EXCEPT ![t] =
                 IF pc[t].i < Len(Components) THEN At("fetch", pc[t].i + 1)
                 ELSE At("commit", 0)]
    /\ UNCHANGED <<uuids, cache_key, CACHE_LOCAL, mainpc, combined, hist, lastOk>>
    /\ UNCHANGED <<readvars, purevars, srcvars>>

\* the with block ends without an exception: check_needs_update resumes after
\* its yield and stores the key (_cache_key[0] = combined); under CACHE_LOCAL it
\* returns
commit(t) ==
    /\ pc[t].at = "commit"
    /\ cache_key' = IF hist[t].local THEN cache_key ELSE combined[t]
    /\ hist' = [hist EXCEPT ![t].outcome = "ok"]
    /\ lastOk' = hist[t].probed
    /\ pc' = [pc EXCEPT ![t] = At("sleep", 0)]
    /\ UNCHANGED <<state, uuids, now, CACHE_LOCAL, mainpc, combined>>
    /\ UNCHANGED <<readvars, purevars, srcvars>>

\* time.sleep(UPDATE_INTERVAL), then the next iteration of `while True`
sleep(t) ==
    /\ pc[t].at = "sleep"
    /\ hist[t].cycle < MaxTicks
    /\ now' = now + 1
    /\ hist' = [hist EXCEPT ![t].sleeps = @ + 1]
    /\ pc' = [pc EXCEPT ![t] = At("check", 0)]
    /\ UNCHANGED <<state, uuids, cache_key, CACHE_LOCAL, mainpc, combined, lastOk>>
    /\ UNCHANGED <<readvars, purevars, srcvars>>

update_thread(t) ==
    \/ check_local(t)
    \/ \E h \in Headers : check_needs_update(t, h)
    \/ probe_raises(t)
    \/ update(t)
    \/ update_raises(t)
    \/ set_etag(t)
    \/ set_last_update(t)
    \/ commit(t)
    \/ sleep(t)

\* cache_route's wrapper: response.set_etag(state.etag), before the view runs
set_etag_header ==
    /\ mainpc # "import"
    /\ rpc = 0
    /\ view' = [NoView EXCEPT !.etag = <<state.etag>>]
    /\ rpc' = 1
    /\ UNCHANGED <<syncvars, purevars, srcvars>>

\* the view (outofdate) reads the next attribute of the state it uses
read_state ==
    /\ rpc \in 1..Len(Reads)
    /\ view' = [view EXCEPT ![Reads[rpc]] = <<state[Reads[rpc]]>>]
    /\ rpc' = rpc + 1
    /\ UNCHANGED <<syncvars, purevars, srcvars>>

cache_route ==
    \/ set_etag_header
    \/ read_state

Init == SyncInit /\ PureIdle /\ SourceIdle

Next ==
    \/ \E t \in Threads : start_update_thread(t)
    \/ \E cache \in BOOLEAN : main(cache)
    \/ \E t \in Threads : update_thread(t)

Spec == Init /\ [][Next]_vars

\* the update thread together with one request served by a cache_route view
NextServing == Next \/ cache_route

SpecServing == Init /\ [][NextServing]_vars

(***************************************************************************)
(* The pure functions, each applied to inputs drawn from a bounded set.    *)
(***************************************************************************)
VerChars == {"1", "a", ".", "-", "~"}

\* the spec's example chains, in ascending order
Chain1 == <<<<"1", ".", "0", "-", "1">>, <<"1", ".", "0", "-", "2">>, <<"1", ".", "1", "-", "1">>, <<"2", ":", "1", ".", "0", "-", "1">>>>
Chain2 == <<<<"1", ".", "0", "a">>, <<"1", ".", "0">>, <<"1", ".", "0", ".", "1">>>>

MoreVersions ==
    {<<"0", "1">>,
     <<"1", "0">>,
     <<"a", "b">>,
     <<"b">>,
     <<"1", ".", "0", ".">>,
     <<"2", "~", "1">>,
     <<"1", "_", "_", "a">>,
     <<"1", ".", "a">>}

Range(s) == {s[i] : i \in 1..Len(s)}

Versions ==
    StringsUpTo(VerChars, MaxVerLen) \cup Range(Chain1) \cup Range(Chain2)
        \cup MoreVersions

SyncIdle == SyncInit /\ SourceIdle

InitVercmp ==
    /\ SyncIdle
    /\ arg \in {[fn |-> "vercmp", a |-> a, b |-> b] : a \in Versions, b \in Versions}
    /\ out = [done |-> FALSE]

\* vercmp and version_is_newer_than on the pair, both ways round
call_vercmp ==
    /\ arg.fn = "vercmp"
    /\ ~out.done
    /\ out' = [done |-> TRUE,
               ab |-> vercmp(arg.a, arg.b),
               ba |-> vercmp(arg.b, arg.a),
               aa |-> vercmp(arg.a, arg.a),
               newer_ab |-> version_is_newer_than(arg.a, arg.b),
               newer_ba |-> version_is_newer_than(arg.b, arg.a)]
    /\ UNCHANGED <<arg, syncvars, readvars, srcvars>>

SpecVercmp == InitVercmp /\ [][call_vercmp]_vars

\* the versions that begin with a digit, as a package version does
PlainVersions == {v \in Versions : v # <<>> /\ get_type(<<v[1]>>) = digit}

InitVercmp3 ==
    /\ SyncIdle
    /\ arg \in {[fn |-> "vercmp3", a |-> a, b |-> b, c |-> c] :
                  a \in PlainVersions, b \in PlainVersions, c \in PlainVersions}
    /\ out = [done |-> FALSE]

\* vercmp on the three pairs of a triple
call_vercmp3 ==
    /\ arg.fn = "vercmp3"
    /\ ~out.done
    /\ out' = [done |-> TRUE,
               ab |-> vercmp(arg.a, arg.b),
               bc |-> vercmp(arg.b, arg.c),
               ac |-> vercmp(arg.a, arg.c)]
    /\ UNCHANGED <<arg, syncvars, readvars, srcvars>>

SpecVercmp3 == InitVercmp3 /\ [][call_vercmp3]_vars

PathPool ==
    {<<>>, <<"/">>, <<"a">>, <<"a", "/">>, <<"a", "/", "b">>,
     <<"a", "/", "c", "/">>, <<"a", "/", "c", "/", "d">>, <<"e", "/">>}

RECURSIVE ListsUpTo(_, _)
ListsUpTo(S, n) ==
    IF n = 0 THEN {<<>>}
    ELSE LET shorter == ListsUpTo(S, n - 1)
         IN  shorter \cup {Append(l, x) : l \in shorter, x \in S}

\* the spec's example file lists: ["a/", "a/b.txt", "a/c/", "a/c/d.txt"] and
\* ["empty/"]
ExampleFiles ==
    {<< <<"a", "/">>,
        <<"a", "/", "b", ".", "t", "x", "t">>,
        <<"a", "/", "c", "/">>,
        <<"a", "/", "c", "/", "d", ".", "t", "x", "t">> >>,
     << <<"e", "m", "p", "t", "y", "/">> >>}

InitFiles ==
    /\ SyncIdle
    /\ arg \in {[fn |-> "cleanup_files", files |-> l] :
                  l \in ListsUpTo(PathPool, MaxFiles) \cup ExampleFiles}
    /\ out = [done |-> FALSE]

\* cleanup_files on the list, and on its own result
call_cleanup_files ==
    /\ arg.fn = "cleanup_files"
    /\ ~out.done
    /\ out' = [done |-> TRUE,
               once |-> cleanup_files(arg.files),
               twice |-> cleanup_files(cleanup_files(arg.files))]
    /\ UNCHANGED <<arg, syncvars, readvars, srcvars>>

SpecFiles == InitFiles /\ [][call_cleanup_files]_vars

UpstreamChars == {"1", "-", "+", "~", ":"}

\* the spec's examples "2:1.5.0-3" and "1.2.3+git20200101-1", and "1.0-rc1-2"
UpstreamExamples ==
    {<<"2", ":", "1", ".", "5", ".", "0", "-", "3">>,
     <<"1", ".", "2", ".", "3", "+", "g", "i", "t", "2", "0", "2", "0", "0",
       "1", "0", "1", "-", "1">>,
     <<"1", ".", "0", "-", "r", "c", "1", "-", "2">>}

\* versions that begin with a digit, as a package version does
UpstreamVersions ==
    {<<"1">> \o s : s \in StringsUpTo(UpstreamChars, MaxUpstreamLen)}
        \cup UpstreamExamples

InitUpstream ==
    /\ SyncIdle
    /\ arg \in {[fn |-> "extract_upstream_version", version |-> v] :
                  v \in UpstreamVersions}
    /\ out = [done |-> FALSE]

call_extract_upstream_version ==
    /\ arg.fn = "extract_upstream_version"
    /\ ~out.done
    /\ out' = [done |-> TRUE, upstream |-> extract_upstream_version(arg.version)]
    /\ UNCHANGED <<arg, syncvars, readvars, srcvars>>

SpecUpstream == InitUpstream /\ [][call_extract_upstream_version]_vars

TextChars == {"a", "b", Space, NL}

\* texts that begin with a header line, as a desc file does
Texts ==
    {<<c>> \o t : c \in {"a", "b"}, t \in StringsUpTo(TextChars, MaxTextLen - 1)}

InitDesc ==
    /\ SyncIdle
    /\ arg \in {[fn |-> "parse_desc", t |-> t] : t \in Texts}
    /\ out = [done |-> FALSE]

call_parse_desc ==
    /\ arg.fn = "parse_desc"
    /\ ~out.done
    /\ out' = [done |-> TRUE, d |-> parse_desc(arg.t)]
    /\ UNCHANGED <<arg, syncvars, readvars, srcvars>>

SpecDesc == InitDesc /\ [][call_parse_desc]_vars

\* package names, patterns and replacements of the name mapping
ArchNames == {<<"a">>, <<"A">>, <<"b">>, <<"a", "B">>}
ArchPatterns == {<<"a">>, <<"B">>, AnyName}
ArchRepls == {<<"a">>, <<"b">>}
SkipPatterns == {<<"b">>, <<"A", "b">>}

\* a mapping is a dict: its rules are in insertion order and no pattern is
\* the key of two of them
Mappings ==
    {m \in ListsUpTo(ArchPatterns \X ArchRepls, MaxRules) :
        \A i, j \in 1..Len(m) : m[i][1] = m[j][1] => i = j}

InitArchNames ==
    /\ SyncIdle
    /\ arg \in {[fn |-> "get_arch_names", name |-> n, mapping |-> m, skipped |-> k] :
                  n \in ArchNames, m \in Mappings, k \in SUBSET SkipPatterns}
    /\ out = [done |-> FALSE]

call_get_arch_names ==
    /\ arg.fn = "get_arch_names"
    /\ ~out.done
    /\ out' = [done |-> TRUE,
               names |-> get_arch_names(arg.mapping, arg.skipped, arg.name)]
    /\ UNCHANGED <<arg, syncvars, readvars, srcvars>>

SpecArchNames == InitArchNames /\ [][call_get_arch_names]_vars

\* repositories, variants and package names of the packages to index
Mingw32 == <<"m", "i", "n", "g", "w", "3", "2">>
Mingw64 == <<"m", "i", "n", "g", "w", "6", "4">>
Msys == <<"m", "s", "y", "s">>
Variants == {<<>>, <<"i", "6", "8", "6">>, <<"x", "8", "6", "_", "6", "4">>}
PkgNames == {<<"a">>, <<"b">>}
FileNo == <<"1", "2", "3", "4", "5">>

\* what a package provides and depends on
Shapes ==
    LET shape(prov, dep, make, opt, check) ==
            [provides |-> prov, depends |-> dep, makedepends |-> make,
             optdepends |-> opt, checkdepends |-> check]
        a == <<"a">>
        b == <<"b">>
    IN  {shape(<<>>, <<>>, <<>>, <<>>, <<>>),
         shape(<<>>, <<a>>, <<>>, <<>>, <<>>),
         shape(<<>>, <<a, b>>, <<>>, <<>>, <<>>),
         shape(<<>>, <<>>, <<b>>, <<>>, <<b>>),
         shape(<<b>>, <<>>, <<>>, <<a>>, <<>>),
         shape(<<a>>, <<>>, <<>>, <<>>, <<>>)}

PackageTemplates == PkgNames \X Variants \X Shapes

\* the i-th Package of a database, made from a template
NewPackage(t, i) ==
    [repo |-> IF t[2] = <<>> THEN Mingw64 ELSE Msys,
     repo_variant |-> t[2],
     name |-> t[1],
     arch |-> <<"a", "n", "y">>,
     fileurl |-> t[1] \o <<"-", FileNo[i]>>,
     provides |-> t[3].provides,
     depends |-> t[3].depends,
     makedepends |-> t[3].makedepends,
     optdepends |-> t[3].optdepends,
     checkdepends |-> t[3].checkdepends,
     rdepends |-> <<>>]

\* the sources of a list of packages: one Source for each name, in the order
\* of the names
SourcesOf(pkgs) ==
    LET named(n) == SelectSeq(pkgs, LAMBDA p : p.name = n)
        source(n) == IF named(n) = <<>> THEN <<>>
                     ELSE <<[name |-> n, packages |-> named(n)]>>
    IN  source(<<"a">>) \o source(<<"b">>)

SourceLists ==
    {SourcesOf([i \in 1..Len(l) |-> NewPackage(l[i], i)]) :
        l \in ListsUpTo(PackageTemplates, MaxPackages)}

InitRdepends ==
    /\ SyncIdle
    /\ arg \in {[fn |-> "fill_rdepends", sources |-> l] : l \in SourceLists}
    /\ out = [done |-> FALSE]

call_fill_rdepends ==
    /\ arg.fn = "fill_rdepends"
    /\ ~out.done
    /\ out' = [done |-> TRUE, sources |-> fill_rdepends(arg.sources)]
    /\ UNCHANGED <<arg, syncvars, readvars, srcvars>>

SpecRdepends == InitRdepends /\ [][call_fill_rdepends]_vars

\* versions of the packages of a Source, of the other distribution and of
\* the Cygwin list
OwnVersions ==
    {<<"1", "-", "1">>, <<"1", ".", "0", "-", "1">>, <<"1", ".", "0", "-", "2">>,
     <<"1", "_", "_", "a", "-", "1">>, <<"2", "~", "1", "-", "1">>}
ArchInfos ==
    {Absent, <<"1", "-", "1">>, <<"1", ".", "0", "-", "1">>,
     <<"1", "_", "_", "a", "-", "1">>, <<"1", ".", "1", "-", "1">>}
CygwinInfos ==
    {Absent, <<"1">>, <<"1", ".", "0">>, <<"1", "_", "_", "a">>, <<"1", ".", "1">>}

InitOutdated ==
    /\ SyncIdle
    /\ arg \in {[fn |-> "is_outdated", versions |-> {v, w}, arch_info |-> a,
                  cygwin_info |-> c] :
                  v \in OwnVersions, w \in OwnVersions, a \in ArchInfos,
                  c \in CygwinInfos}
    /\ out = [done |-> FALSE]

\* the properties version, external_infos, upstream_version and is_outdated
\* of the Source
call_is_outdated ==
    /\ arg.fn = "is_outdated"
    /\ ~out.done
    /\ \E version \in newest(arg.versions) :
          LET infos == external_infos(arg.arch_info, arg.cygwin_info) IN
          out' = [done |-> TRUE,
                  version |-> version,
                  external_infos |-> infos,
                  upstream_version |-> upstream_version(infos),
                  is_outdated |-> is_outdated(version, infos)]
    /\ UNCHANGED <<arg, syncvars, readvars, srcvars>>

SpecOutdated == InitOutdated /\ [][call_is_outdated]_vars

(***************************************************************************)
(* update_source (src/main.py, 1318-1335) with parse_repo and              *)
(* Source.add_desc, inside one refresh cycle after another of the update   *)
(* thread.  heap[c] holds the Source objects (with their Packages) that    *)
(* cycle c has built: the locals final and new_sources refer to them, and  *)
(* so does state.sources once it is c.  A record of a database is what     *)
(* parse_desc gives for one package directory; the records come in the     *)
(* order of the directory names.                                           *)
(***************************************************************************)
REPOSITORIES ==
    <<[name |-> Mingw32, variant |-> <<>>],
      [name |-> Mingw64, variant |-> <<>>],
      [name |-> Msys, variant |-> <<"x", "8", "6", "_", "6", "4">>]>>

\* name.split("-", 3)[-1]
split3_last(name) == split1_last(split1_last(split1_last(name, "-"), "-"), "-")

\* Source.from_desc: the Source of a record, named by %BASE%; without %BASE%
\* by "mingw-w64-" and the end of %NAME% in a mingw repository, by %NAME% in
\* another
source_from_desc(d, repo) ==
    [name |-> IF d.base = Absent
              THEN IF startswith(repo.name, <<"m", "i", "n", "g", "w">>)
                   THEN <<"m", "i", "n", "g", "w", "-", "w", "6", "4", "-">>
                            \o split3_last(d.name)
                   ELSE d.name
              ELSE d.base,
     packages |-> <<>>]

\* Package.from_desc for a record of the database of a repository, called by
\* Source.add_desc with the name of the Source as base
from_desc(d, base, repo) ==
    [repo |-> repo.name,
     base |-> base,
     repo_variant |-> repo.variant,
     name |-> d.name,
     arch |-> <<"a", "n", "y">>,
     fileurl |-> repo.name \o <<"/">> \o d.filename,
     provides |-> <<>>,
     depends |-> d.depends,
     makedepends |-> <<>>,
     optdepends |-> <<>>,
     checkdepends |-> <<>>,
     rdepends |-> <<>>]

\* the position of the Source called name in a dict of sources, 0 if none
RECURSIVE source_at(_, _, _)
source_at(sources, name, i) ==
    IF i > Len(sources) THEN 0
    ELSE IF sources[i].name = name THEN i
    ELSE source_at(sources, name, i + 1)

\* the position of the Package with key k in a packages dict, 0 if none
RECURSIVE package_at(_, _, _)
package_at(packages, k, i) ==
    IF i > Len(packages) THEN 0
    ELSE IF package_key(packages[i]) = k THEN i
    ELSE package_at(packages, k, i + 1)

\* parse_repo: add_desc for every record; error when Source.add_desc's
\* assertion fails
RECURSIVE parse_records(_, _, _, _)
parse_records(repo, records, i, sources) ==
    IF i > Len(records) THEN [error |-> FALSE, sources |-> sources]
    ELSE LET d == records[i]
             source == source_from_desc(d, repo)
             p == from_desc(d, source.name, repo)
             at == source_at(sources, source.name, 1)
         IN  IF at = 0
             THEN parse_records(repo, records, i + 1,
                      Append(sources, [source EXCEPT !.packages = <<p>>]))
             ELSE IF package_at(sources[at].packages, package_key(p), 1) # 0
             THEN [error |-> TRUE, sources |-> sources]
             ELSE parse_records(repo, records, i + 1,
                      [sources EXCEPT ![at].packages = Append(@, p)])

\* packages.update(incoming)
RECURSIVE dict_update(_, _, _)
dict_update(packages, incoming, i) ==
    IF i > Len(incoming) THEN packages
    ELSE LET at == package_at(packages, package_key(incoming[i]), 1) IN
         dict_update(IF at = 0 THEN Append(packages, incoming[i])
                     ELSE [packages EXCEPT ![at] = incoming[i]],
                     incoming, i + 1)

\* the loop of update_source over the sources of one repository
RECURSIVE merge(_, _, _)
merge(final, sources, i) ==
    IF i > Len(sources) THEN final
    ELSE LET at == source_at(final, sources[i].name, 1) IN
         merge(IF at = 0 THEN Append(final, sources[i])
               ELSE [final EXCEPT ![at].packages =
                        dict_update(@, sources[i].packages, 1)],
               sources, i + 1)

\* the values of final in the order of their insertion
unsorted_sources(final) == final

\* [x[1] for x in sorted(final.items())]
RECURSIVE insert_named(_, _)
insert_named(l, src) ==
    IF l = <<>> THEN <<src>>
    ELSE IF StrLess(src.name, Head(l).name) THEN <<src>> \o l
    ELSE <<Head(l)>> \o insert_named(Tail(l), src)

RECURSIVE sorted_sources(_)
sorted_sources(final) ==
    IF final = <<>> THEN <<>>
    ELSE insert_named(sorted_sources(SubSeq(final, 1, Len(final) - 1)),
                      final[Len(final)])

\* update_source with the assignment before the indexing
update_source_assigns_first == <<"parse_repo", "assign", "fill_rdepends">>

\* the statements of update_source, in their order
update_source_steps == <<"parse_repo", "fill_rdepends", "assign">>

\* a setter of AppState: the value, then _update_etag
set_state(field, c) ==
    /\ state' = [state EXCEPT ![field] = c, !.etag = uuid4, !.last_update = now]
    /\ uuids' = uuids + 1

othervars == <<cache_key, CACHE_LOCAL, mainpc, pc, combined, hist, lastOk,
               readvars, purevars, db>>

\* update_source is at the statement called step
InUpdateSource(step) ==
    /\ frame.at = "update_source"
    /\ update_source_steps[frame.step] = step

\* the frame after a statement of update_source
next_statement ==
    IF frame.step = Len(update_source_steps)
    THEN [frame EXCEPT !.at = "update_sourceinfos"]
    ELSE [frame EXCEPT !.step = @ + 1]

\* update_thread finds that an update is needed
begin_cycle ==
    /\ frame.at = "idle"
    /\ db # <<>>
    /\ frame.cycle < MaxTicks
    /\ frame' = [at |-> "update_arch_mapping", cycle |-> frame.cycle + 1,
                 step |-> 0, repo |-> 0]
    /\ UNCHANGED <<state, uuids, now, heap, othervars>>

update_arch_mapping ==
    /\ frame.at = "update_arch_mapping"
    /\ set_state("arch_mapping", frame.cycle)
    /\ frame' = [frame EXCEPT !.at = "update_cygwin_versions"]
    /\ UNCHANGED <<now, heap, othervars>>

\* update_cygwin_versions, and update_source up to final = {}
update_cygwin_versions ==
    /\ frame.at = "update_cygwin_versions"
    /\ set_state("cygwin_versions", frame.cycle)
    /\ frame' = [frame EXCEPT !.at = "update_source", !.step = 1, !.repo = 1]
    /\ heap' = [heap EXCEPT ![frame.cycle] = <<>>]
    /\ UNCHANGED <<now, othervars>>

\* one round of the loop over REPOSITORIES; after the last one the sorted
\* list new_sources.  A failed assertion ends the cycle: update_thread
\* prints the traceback and sleeps.
parse_repo ==
    /\ InUpdateSource("parse_repo")
    /\ LET repo == REPOSITORIES[frame.repo]
           parsed == parse_records(repo, db[frame.repo], 1, <<>>)
           final == merge(heap[frame.cycle], parsed.sources, 1)
       IN  IF parsed.error
           THEN /\ frame' = [frame EXCEPT !.at = "idle"]
                /\ now' = now + 1
                /\ UNCHANGED heap
           ELSE IF frame.repo < Len(REPOSITORIES)
           THEN /\ frame' = [frame EXCEPT !.repo = @ + 1]
                /\ heap' = [heap EXCEPT ![frame.cycle] = final]
                /\ UNCHANGED now
           ELSE /\ frame' = next_statement
                /\ heap' = [heap EXCEPT ![frame.cycle] = sorted_sources(final)]
                /\ UNCHANGED now
    /\ UNCHANGED <<state, uuids, othervars>>

\* fill_rdepends(new_sources)
index_rdepends ==
    /\ InUpdateSource("fill_rdepends")
    /\ heap' = [heap EXCEPT ![frame.cycle] = fill_rdepends(@)]
    /\ frame' = next_statement
    /\ UNCHANGED <<state, uuids, now, othervars>>

\* state.sources = new_sources
assign_sources ==
    /\ InUpdateSource("assign")
    /\ set_state("sources", frame.cycle)
    /\ frame' = next_statement
    /\ UNCHANGED <<now, heap, othervars>>

update_sourceinfos ==
    /\ frame.at = "update_sourceinfos"
    /\ set_state("sourceinfos", frame.cycle)
    /\ frame' = [frame EXCEPT !.at = "update_versions"]
    /\ UNCHANGED <<now, heap, othervars>>

\* update_versions (its parse_repo calls build Sources of their own), then
\* the sleep of update_thread
update_versions ==
    /\ frame.at = "update_versions"
    /\ set_state("arch_versions", frame.cycle)
    /\ frame' = [frame EXCEPT !.at = "idle"]
    /\ now' = now + 1
    /\ UNCHANGED <<heap, othervars>>

\* the records a database may hold: the second has the key of the first and
\* another base, the third depends on the package of the first two, the
\* fourth has no %BASE%
RecordPool ==
    {[name |-> <<"a">>, base |-> <<"a">>, filename |-> <<"a", "-", "1">>, depends |-> <<>>],
     [name |-> <<"a">>, base |-> <<"b">>, filename |-> <<"a", "-", "1">>, depends |-> <<>>],
     [name |-> <<"b">>, base |-> <<"b">>, filename |-> <<"b", "-", "1">>, depends |-> <<<<"a">>>>],
     [name |-> <<"m", "i", "n", "g", "w", "-", "w", "6", "4", "-", "i", "6", "8", "6", "-", "a">>,
      base |-> Absent, filename |-> <<"m", "-", "1">>, depends |-> <<>>]}

RECURSIVE TotalLen(_, _)
TotalLen(d, i) == IF i > Len(d) THEN 0 ELSE Len(d[i]) + TotalLen(d, i + 1)

\* the databases of the repositories, with at most MaxRecords records in all
Databases ==
    {d \in [1..Len(REPOSITORIES) -> ListsUpTo(RecordPool, MaxRecords)] :
        TotalLen(d, 1) <= MaxRecords}

InitSource ==
    /\ SyncInit
    /\ PureIdle
    /\ db \in Databases
    /\ heap = [c \in 1..MaxTicks |-> <<>>]
    /\ frame = NoFrame

NextSource ==
    \/ begin_cycle
    \/ update_arch_mapping
    \/ update_cygwin_versions
    \/ parse_repo
    \/ index_rdepends
    \/ assign_sources
    \/ update_sourceinfos
    \/ update_versions

SpecSource == InitSource /\ [][NextSource]_vars

(***************************************************************************)
(* The claims.                                                             *)
(***************************************************************************)
Refreshing(t) == pc[t].at \in {"fetch", "etag", "time", "commit"}

\* C1: whatever a request handler has read of the state while the update
\* thread runs comes from one refresh cycle (or all of it is the initial data):
\* it never holds a source list of one cycle beside a mapping or a version
\* table of another.
C1_SnapshotAtomicity ==
    \A i, j \in 1..Len(Reads) :
        (view[Reads[i]] # Unread /\ view[Reads[j]] # Unread)
        => view[Reads[i]] = view[Reads[j]]

\* C2: after a tick in which a probe or an update_* step raised, the five
\* components, the etag and last_update are what they were when the tick began.
C2_AbortLeavesStateUntouched ==
    \A t \in Threads :
        hist[t].outcome \in {"abort", "probe_error"} => state = hist[t].start

\* C3: in network mode, a tick that probes the very headers the last completed
\* cycle probed runs no update_* step and leaves the state as it was.
C3_SameHeadersSkip ==
    \A t \in Threads :
        (/\ hist[t].outcome \in {"running", "skip", "abort"}
         /\ ~hist[t].local
         /\ lastOk # NoHeaders
         /\ hist[t].probed = lastOk)
        => (/\ hist[t].outcome = "skip"
            /\ ~Refreshing(t)
            /\ state = hist[t].start
            /\ cache_key = hist[t].start_key)

C3_Witness ==
    \E t \in Threads :
        /\ hist[t].outcome = "skip"
        /\ ~hist[t].local
        /\ hist[t].prev_outcome = "ok"
        /\ hist[t].probed = lastOk

\* C4: a cycle that aborts leaves the stored key as it was and the thread goes
\* on to its sleep; the tick after it, probing the same headers, refreshes again
\* (it does not skip).
C4_AbortRetries ==
    \A t \in Threads :
        /\ hist[t].outcome = "abort"
           => (cache_key = hist[t].start_key /\ pc[t].at \in {"sleep", "check"})
        /\ (/\ hist[t].prev_outcome = "abort"
            /\ hist[t].outcome # "probe_error"
            /\ hist[t].probed = hist[t].prev_probed)
           => hist[t].outcome \in {"running", "ok", "abort"}

C4_Witness ==
    \E t \in Threads :
        /\ hist[t].prev_outcome = "abort"
        /\ ~hist[t].local
        /\ hist[t].probed = hist[t].prev_probed
        /\ hist[t].outcome = "ok"
        /\ state.sources = hist[t].cycle

\* C5: after a cycle that ran to completion the etag differs from the etag
\* published when the cycle began.
C5_FreshFingerprint ==
    \A t \in Threads :
        hist[t].outcome = "ok" => state.etag # hist[t].start.etag

C5_Witness ==
    \E t \in Threads : hist[t].outcome = "ok" /\ hist[t].cycle = 2

\* C6: at most one update thread exists, so at most one refresh is in progress,
\* and a thread begins its next tick only after the sleep that follows the tick
\* before it.
C6_SingleCycle ==
    /\ Cardinality({t \in Threads : pc[t].at # "unstarted"}) <= 1
    /\ Cardinality({t \in Threads : Refreshing(t)}) <= 1
    /\ \A t \in Threads :
           hist[t].cycle =
               hist[t].sleeps + (IF pc[t].at \in {"unstarted", "check"} THEN 0 ELSE 1)

C6_Witness ==
    \E t \in Threads : Refreshing(t) /\ hist[t].cycle = 2 /\ hist[t].sleeps = 1

\* C7: vercmp returns -1, 0 or 1 and is transitive: vercmp(a, b) <= 0 and
\* vercmp(b, c) <= 0 imply vercmp(a, c) <= 0.
C7_TotalPreorder ==
    out.done =>
        /\ out.ab \in {-1, 0, 1}
        /\ (out.ab <= 0 /\ out.bc <= 0) => out.ac <= 0

\* C8: vercmp(a, a) = 0 and vercmp(a, b) = -vercmp(b, a); so a and b are never
\* each newer than the other, and neither is newer when they compare equal.
C8_Antisymmetric ==
    out.done =>
        /\ out.aa = 0
        /\ out.ab = -out.ba
        /\ ~(out.newer_ab /\ out.newer_ba)
        /\ out.ab = 0 => (~out.newer_ab /\ ~out.newer_ba)

C8_Witness ==
    /\ out.done
    /\ arg.a # arg.b
    /\ out.ab = 0
    /\ \E i \in 1..Len(arg.a) : arg.a[i] = "-"

\* a is an earlier and b a later version of one of the example chains
Ascending(a, b) ==
    \/ \E i, j \in 1..Len(Chain1) : i < j /\ a = Chain1[i] /\ b = Chain1[j]
    \/ \E i, j \in 1..Len(Chain2) : i < j /\ a = Chain2[i] /\ b = Chain2[j]

\* C9: vercmp returns -1 for every earlier and later element of the chains
\* 1.0-1, 1.0-2, 1.1-1, 2:1.0-1 and 1.0a, 1.0, 1.0.1.
C9_ExampleChains ==
    (out.done /\ Ascending(arg.a, arg.b)) => (out.ab = -1 /\ out.ba = 1)

C9_Witness ==
    /\ out.done
    /\ arg.a = Chain2[1]
    /\ arg.b = Chain2[2]
    /\ out.ab = -1

\* C10 as claimed: cleanup_files(cleanup_files(L)) = cleanup_files(L).
C10_Idempotent == out.done => out.twice = out.once

\* C10 as amended: on a list without an empty path the second application
\* removes nothing and prepends one more "/" to every path.
C10_IdempotentUpToRoot ==
    (out.done /\ \A i \in 1..Len(arg.files) : arg.files[i] # <<>>)
    => out.twice = [i \in 1..Len(out.once) |-> <<"/">> \o out.once[i]]

C10_Witness ==
    /\ out.done
    /\ \A i \in 1..Len(arg.files) : arg.files[i] # <<>>
    /\ Len(out.once) >= 2
    /\ Len(out.once) < Len(arg.files)
    /\ Len(out.twice) = Len(out.once)

\* a path that names a directory, and a listed path below it
IsDirectory(p) == p # <<>> /\ p[Len(p)] = "/"
Below(q, p) == Len(q) > Len(p) /\ SubSeq(q, 1, Len(p)) = p

Count(l, x) == Cardinality({i \in 1..Len(l) : l[i] = x})

\* C11: cleanup_files keeps every path that does not end in "/" (as often as
\* it is listed), drops a path ending in "/" exactly when a strictly longer
\* listed path has it as a prefix, and returns each retained path with one
\* "/" prepended and nothing else.
C11_Retention ==
    out.done =>
        LET files == arg.files
            n == Len(files)
            implied(p) == IsDirectory(p) /\ \E j \in 1..n : Below(files[j], p)
        IN  /\ \A i \in 1..n :
                  implied(files[i]) <=> Count(out.once, <<"/">> \o files[i]) = 0
            /\ \A i \in 1..n :
                  ~IsDirectory(files[i]) =>
                      Count(out.once, <<"/">> \o files[i]) = Count(files, files[i])
            /\ \A k \in 1..Len(out.once) :
                  \E i \in 1..n : out.once[k] = <<"/">> \o files[i]

\* the spec's example: of a/, a/b.txt, a/c/, a/c/d.txt only the two files stay
C11_Witness ==
    /\ out.done
    /\ Len(arg.files) = 4
    /\ arg.files[2] = <<"a", "/", "b", ".", "t", "x", "t">>
    /\ out.once = << <<"/", "a", "/", "b", ".", "t", "x", "t">>,
                     <<"/", "a", "/", "c", "/", "d", ".", "t", "x", "t">> >>

\* the list a is the list b with some of its elements left out
RECURSIVE IsSubseq(_, _)
IsSubseq(a, b) ==
    IF a = <<>> THEN TRUE
    ELSE IF b = <<>> THEN FALSE
    ELSE IF Head(a) = Head(b) THEN IsSubseq(Tail(a), Tail(b))
    ELSE IsSubseq(a, Tail(b))

\* a list of strings in ascending (non-decreasing) order
IsAscending(l) == \A i \in 1..(Len(l) - 1) : ~StrLess(l[i + 1], l[i])

RootedInput == [i \in 1..Len(arg.files) |-> <<"/">> \o arg.files[i]]

\* C17 as claimed: the retained paths come out in the relative order they
\* had in the input list, whether that list is sorted or not.
C17_InputOrder == out.done => IsSubseq(out.once, RootedInput)

\* C17 as amended: the retained paths come out in ascending lexicographic
\* order, which is their relative order in the input when the input list is
\* in ascending order.
C17_AscendingOrder ==
    out.done =>
        /\ IsAscending(out.once)
        /\ IsAscending(arg.files) => IsSubseq(out.once, RootedInput)

\* an unsorted list of which a directory entry is dropped and two paths stay
C17_Witness ==
    /\ out.done
    /\ ~IsAscending(arg.files)
    /\ Len(out.once) >= 2
    /\ Len(out.once) < Len(arg.files)
    /\ out.once[1] # out.once[2]

\* the steps of the claim: cut from the last c, cut from the first c, keep
\* what follows the last c
UntilLast(s, c) ==
    LET i == RFind(s, c, Len(s)) IN IF i = 0 THEN s ELSE SubSeq(s, 1, i - 1)
UntilFirst(s, c) ==
    LET i == Find(s, c, 1) IN IF i = 0 THEN s ELSE SubSeq(s, 1, i - 1)
AfterLast(s, c) ==
    LET i == RFind(s, c, Len(s)) IN IF i = 0 THEN s ELSE SubSeq(s, i + 1, Len(s))

\* C16: extract_upstream_version(v) is v without the part from the last "-"
\* on, then without the part from the first "+" on, then what follows the
\* last "~", then what follows the last ":".
C16_UpstreamVersion ==
    out.done =>
        out.upstream =
            AfterLast(AfterLast(UntilFirst(UntilLast(arg.version, "-"), "+"), "~"), ":")

\* the lines of the input text, and its blocks: the maximal runs of
\* consecutive non-blank lines, each given by its first and last line
TextLines == [i \in 1..Len(splitlines(arg.t)) |-> strip(splitlines(arg.t)[i])]
Blank(i) == i < 1 \/ i > Len(TextLines) \/ TextLines[i] = <<>>
Blocks ==
    {b \in (1..Len(TextLines)) \X (1..Len(TextLines)) :
        /\ b[1] <= b[2]
        /\ \A i \in b[1]..b[2] : ~Blank(i)
        /\ Blank(b[1] - 1)
        /\ Blank(b[2] + 1)}

\* C15: every key of parse_desc's result is the (non-blank) header line of a
\* block of the input and its value list is the rest of that block, in
\* order; and every block's header line is a key.
C15_BlocksParsed ==
    out.done =>
        /\ \A k \in DOMAIN out.d :
              \E b \in Blocks :
                  /\ TextLines[b[1]] = k
                  /\ out.d[k] = SubSeq(TextLines, b[1] + 1, b[2])
        /\ \A b \in Blocks : TextLines[b[1]] \in DOMAIN out.d

\* the rules of the mapping that match the lower-cased name
MatchingRules ==
    {i \in 1..Len(arg.mapping) : fullmatch(arg.mapping[i][1], lower(arg.name))}

\* C20: get_arch_names returns [] exactly when the lower-cased name matches a
\* skip pattern; otherwise a duplicate-free list that ends with the
\* lower-cased name, preceded by at most one candidate, the replacement of
\* the first rule that matches the name (no later rule is consulted).
C20_FirstMatchWins ==
    out.done =>
        LET lname == lower(arg.name)
            names == out.names
        IN  /\ names = <<>> <=> \E p \in arg.skipped : fullmatch(p, lname)
            /\ names # <<>> =>
                  /\ \A i, j \in 1..Len(names) : names[i] = names[j] => i = j
                  /\ names[Len(names)] = lname
                  /\ Len(names) <= 2
                  /\ IF MatchingRules = {} THEN Len(names) = 1
                     ELSE LET first == CHOOSE i \in MatchingRules :
                                           \A j \in MatchingRules : i <= j
                              alternate == arg.mapping[first][2]
                          IN  names = add(<<alternate>>, lname)

\* the Packages after fill_rdepends; P lists the name n under the kind k; T
\* answers to the name n; the variants of T and P exclude each other
Indexed == packages_of(out.sources)
Lists(P, k, n) == \E j \in 1..Len(listed(P, k)) : listed(P, k)[j] = n
AnswersTo(T, n) == T.name = n \/ \E j \in 1..Len(T.provides) : T.provides[j] = n
CrossVariant(T, P) ==
    T.repo_variant # <<>> /\ P.repo_variant # <<>> /\ P.repo_variant # T.repo_variant
KindSet == {"", "make", "optional", "check"}

\* C12: after fill_rdepends, whenever P lists a name under kind k and T has
\* that name or provides it, (P, k) is in T.rdepends, unless T and P have
\* different non-empty variants.
C12_RoundTrip ==
    out.done =>
        \A P, T \in 1..Len(Indexed), k \in KindSet, n \in PkgNames :
            (/\ Lists(Indexed[P], k, n)
             /\ AnswersTo(Indexed[T], n)
             /\ ~CrossVariant(Indexed[T], Indexed[P]))
            => \E j \in 1..Len(Indexed[T].rdepends) : Indexed[T].rdepends[j] = <<P, k>>

\* a variant package that a package without variant reaches through a
\* provided name, and that another package names directly
C12_Witness ==
    /\ out.done
    /\ \E P, T \in 1..Len(Indexed) :
          /\ P # T
          /\ Indexed[T].repo_variant # <<>>
          /\ Indexed[P].repo_variant = <<>>
          /\ \E n \in PkgNames :
                /\ n # Indexed[T].name
                /\ AnswersTo(Indexed[T], n)
                /\ Lists(Indexed[P], "optional", n)
          /\ \E j \in 1..Len(Indexed[T].rdepends) :
                Indexed[T].rdepends[j] = <<P, "optional">>

\* C18: after fill_rdepends no rdepends list holds a pair twice, and each
\* is in non-decreasing order of (key of the dependent, kind).
C18_SortedUnique ==
    out.done =>
        \A T \in 1..Len(Indexed) :
            LET r == Indexed[T].rdepends IN
            /\ \A i, j \in 1..Len(r) : r[i] = r[j] => i = j
            /\ \A i \in 1..(Len(r) - 1) :
                  LET ka == package_key(Indexed[r[i][1]])
                      kb == package_key(Indexed[r[i + 1][1]])
                  IN  \/ TupleLess(ka, kb)
                      \/ ka = kb /\ KindOrd(r[i][2]) <= KindOrd(r[i + 1][2])

\* C19: after fill_rdepends every entry (Q, k) of T.rdepends has Q listing
\* T's name or a name T provides under kind k, and when T has a variant Q
\* has the same variant or none.
C19_Justified ==
    out.done =>
        \A T \in 1..Len(Indexed) :
            \A j \in 1..Len(Indexed[T].rdepends) :
                LET Q == Indexed[Indexed[T].rdepends[j][1]]
                    k == Indexed[T].rdepends[j][2]
                IN  /\ \E n \in PkgNames : Lists(Q, k, n) /\ AnswersTo(Indexed[T], n)
                    /\ Indexed[T].repo_variant # <<>> =>
                          Q.repo_variant \in {Indexed[T].repo_variant, <<>>}

\* a variant package that keeps one dependent and loses another, of another
\* variant
C19_Witness ==
    /\ out.done
    /\ \E T, Q \in 1..Len(Indexed) :
          /\ CrossVariant(Indexed[T], Indexed[Q])
          /\ Lists(Indexed[Q], "", Indexed[T].name)
          /\ Lists(Indexed[T], "", Indexed[T].name)
          /\ Indexed[T].rdepends = <<<<T, "">>>>

\* the source list that state.sources refers to
Published == heap[state.sources]

\* C13: when a source list is assigned to state.sources its rdepends lists
\* are those fill_rdepends writes, and as long as state.sources refers to a
\* list no Source or Package of it changes.
C13_FrozenOncePublished ==
    [][/\ state'.sources # state.sources =>
             heap'[state'.sources] = fill_rdepends(heap'[state'.sources])
       /\ (state.sources # 0 /\ state'.sources = state.sources) =>
             heap'[state.sources] = heap[state.sources]]_vars

\* the second cycle has run to its end: its list is published, with a
\* reverse dependency in it, and the list of the first cycle is as it was
C13_Witness ==
    /\ frame.at = "idle"
    /\ frame.cycle = 2
    /\ state.sources = 2
    /\ state.arch_versions = 2
    /\ \E i \in 1..Len(packages_of(Published)) :
          packages_of(Published)[i].rdepends # <<>>
    /\ heap[1] = heap[2]

\* two records of the databases that have the same Package key
SameKeyRecords ==
    \E r \in 1..Len(db) : \E i, j \in 1..Len(db[r]) :
        /\ i # j
        /\ db[r][i].name = db[r][j].name
        /\ db[r][i].filename = db[r][j].filename

\* C14: when two records of a cycle have the same key no source list is
\* published, so no two Packages of a published source list share a key.
C14_UniqueKeys ==
    state.sources # 0 =>
        /\ ~SameKeyRecords
        /\ \A i, j \in 1..Len(packages_of(Published)) :
              package_key(packages_of(Published)[i]) =
                  package_key(packages_of(Published)[j]) => i = j

\* the entry is strictly newer than the Source's own upstream version
NewerThanOwn(v) == vercmp(v, extract_upstream_version(out.version)) = 1

\* C21: is_outdated is true exactly when some external entry has a version
\* that vercmp ranks strictly newer than extract_upstream_version of the
\* Source's version; in particular never for a Source without entries.
C21_OutdatedIffNewerEntry ==
    out.done =>
        (out.is_outdated <=>
            \E i \in 1..Len(out.external_infos) :
                NewerThanOwn(out.external_infos[i].version))

\* the first entry is not newer, the second is
C21_Witness ==
    /\ out.done
    /\ Len(out.external_infos) = 2
    /\ ~NewerThanOwn(out.external_infos[1].version)
    /\ NewerThanOwn(out.external_infos[2].version)
    /\ out.is_outdated

\* C22: upstream_version is an entry's version that no entry's version is
\* strictly newer than, and is_outdated is true exactly when
\* upstream_version is strictly newer than the Source's own upstream
\* version.
C22_NewestDecides ==
    out.done =>
        /\ out.external_infos # <<>> =>
              /\ \E i \in 1..Len(out.external_infos) :
                    out.external_infos[i].version = out.upstream_version
              /\ \A i \in 1..Len(out.external_infos) :
                    vercmp(out.external_infos[i].version, out.upstream_version) # 1
        /\ out.is_outdated <=> NewerThanOwn(out.upstream_version)

\* C23: in network mode a tick skips the refresh only if an earlier cycle
\* completed and every url answered then the same last-modified and the same
\* etag as it answers now; so the first tick never skips, and a tick at
\* which one header of one url differs always refreshes.
C23_SkipOnlyIfUnchanged ==
    \A t \in Threads :
        (hist[t].outcome = "skip" /\ ~hist[t].local)
        => (/\ lastOk # NoHeaders
            /\ \A u \in Urls : hist[t].probed[u] = lastOk[u])

\* the handler has read the etag and every attribute its view uses
Responded == rpc > Len(Reads)

\* C24: no stale data is served under the current etag: when a response was
\* tagged with an etag that is still the state's etag, every component the
\* response read equals the one the state holds now.
C24_NoStaleUnderCurrentEtag ==
    (Responded /\ view.etag = <<state.etag>>)
    => \A i \in 1..Len(Reads) : view[Reads[i]] = <<state[Reads[i]]>>

\* C25: the published source list is sorted by Source name and no two of its
\* Sources have the same name, every Source of it has a Package, and the base
\* of every Package is the name of the Source that has it.
C25_PublishedWellFormed ==
    state.sources # 0 =>
        /\ \A i, j \in 1..Len(Published) :
              i < j => StrLess(Published[i].name, Published[j].name)
        /\ \A i \in 1..Len(Published) :
              /\ Published[i].packages # <<>>
              /\ \A k \in 1..Len(Published[i].packages) :
                    Published[i].packages[k].base = Published[i].name

\* a published list of two Sources that were found in the other order, the
\* second named after a record without %BASE%
C25_Witness ==
    /\ state.sources # 0
    /\ frame.at = "idle"
    /\ db[1] # <<>> /\ db[1][1].base = Absent
    /\ Len(Published) = 2
    /\ Published[1].name = <<"a">>
    /\ Published[2].name = <<"m", "i", "n", "g", "w", "-", "w", "6", "4", "-", "a">>

=============================================================================
